---- MODULE Spec2Model ----
(***************************************************************************)
(* Model of src/pythondemo/main.py: the Feishu webhook relay.              *)
(*                                                                         *)
(* Every inbound event runs do_p2_im_message_receive_v1 on its own request *)
(* thread (a "handler"); an accepted event starts one background thread    *)
(* (a "unit") that runs process_and_reply.  The only shared state is the   *)
(* dict _seen_message_ids and the wall clock.                              *)
(*                                                                         *)
(* Text is modelled as a sequence of one-character strings.  The two       *)
(* non-ASCII characters of the decoration marker are written "|" and "*".  *)
(* The locals of a thread are reset once they are dead.  recorded and       *)
(* sighted are history variables: they record when _is_dup last answered,  *)
(* and change nothing the program does.                                    *)
(***************************************************************************)
EXTENDS Integers, Sequences, FiniteSets

\* ------------------------------------------------------------- constants
TTL_SECONDS == 60

\* ---------------------------------------------------------------- bounds
\* Number of pieces (a character or a whole decoration marker) of a
\* captured output of the invoker.
MaxPieces == 5
\* Number of inbound events (handler invocations) of a behaviour of the
\* whole program.
MaxEvents == 2
\* Number of calls of _is_dup in a behaviour of _is_dup alone.
MaxCalls == 3
\* Number of events that arrive after a first event was handled and its
\* record has expired.
MaxRacers == 2
\* Number of times the wall clock advances in a behaviour.
MaxTicks == 2

Events == 1..MaxEvents
Calls == 1..MaxCalls
\* The events of a race that begins after a first event was handled.
Racers == 2..(MaxRacers + 1)
Slots == Events \cup Calls \cup Racers

\* The wall clock advances by a whole TTL, or by one second more.
TickSteps == {TTL_SECONDS, TTL_SECONDS + 1}

\* ------------------------------------------------------------ event data
MessageIds == {"m1", "m2"}
MessageTypes == {"text", "image"}

\* The chat an event comes from: consecutive events come from different
\* chats.
ChatOf(e) == IF e % 2 = 1 THEN "c1" ELSE "c2"

\* A Python value that is a str, or one that is not (here an int).
PyStr(chars) == [isStr |-> TRUE, chars |-> chars]
PyInt(digits) == [isStr |-> FALSE, chars |-> digits]

\* msg.content: a string that json.loads either rejects ("invalid"), or
\* parses to a value that is not a dict ("array"), or to a dict ("object")
\* whose "text" member is absent or present with the value `text`.
InvalidJson == [json |-> "invalid", hasText |-> FALSE, text |-> PyStr(<<>>)]
ArrayJson == [json |-> "array", hasText |-> FALSE, text |-> PyStr(<<>>)]
EmptyObject == [json |-> "object", hasText |-> FALSE, text |-> PyStr(<<>>)]
TextHi == [json |-> "object", hasText |-> TRUE, text |-> PyStr(<<"h", "i">>)]
TextNumber == [json |-> "object", hasText |-> TRUE, text |-> PyInt(<<"7">>)]
\* The content of an event whose content the handler never read.
Unread == [json |-> "unread", hasText |-> FALSE, text |-> PyStr(<<>>)]

Contents == {InvalidJson, ArrayJson, EmptyObject, TextHi, TextNumber}

\* ------------------------------------------------------------ _is_dup
\* _seen_message_ids is a dict: a sequence of <<key, timestamp>> pairs in
\* insertion order, with no key twice.
Keys(d) == {d[i][1] : i \in 1..Len(d)}

Contains(d, k) == k \in Keys(d)

Get(d, k) == LET i == CHOOSE j \in 1..Len(d) : d[j][1] = k IN d[i][2]

\* d.pop(k, None)
DictPop(d, k) == SelectSeq(d, LAMBDA p : p[1] # k)

\* d[k] = v
DictSet(d, k, v) ==
    IF Contains(d, k)
    THEN [i \in 1..Len(d) |-> IF d[i][1] = k THEN <<k, v>> ELSE d[i]]
    ELSE Append(d, <<k, v>>)

\* Mutants of Expired: an entry expires already at an age of TTL_SECONDS.
Expired_inclusive(now, ts) == now - ts >= TTL_SECONDS
\* Another: an entry expires one second late.
Expired_late(now, ts) == now - ts > TTL_SECONDS + 1

\* Line 37: now - ts > TTL_SECONDS
Expired(now, ts) == now - ts > TTL_SECONDS

\* Mutant of SweepKeys: the loop stops after the first expired key.
SweepKeys_first(items, now) ==
    LET old == SelectSeq(items, LAMBDA p : Expired(now, p[2]))
    IN IF old = <<>> THEN <<>> ELSE <<old[1][1]>>

\* The keys the loop of lines 36-38 pops: those of the snapshot
\* list(_seen_message_ids.items()) whose timestamp is expired, in order.
RECURSIVE SweepKeys(_, _)
SweepKeys(items, now) ==
    IF items = <<>> THEN <<>>
    ELSE LET rest == SweepKeys(Tail(items), now)
         IN IF Expired(now, Head(items)[2])
            THEN <<Head(items)[1]>> \o rest
            ELSE rest

\* ---------------------------------------------------- call_clawdbot_cli
\* The characters str.strip() removes: those for which str.isspace() holds.
\* A character that a string of this module cannot hold is written as its
\* Python escape.
Whitespace ==
    {" ", "\n", "\t", "\r", "\f", "\\x0b", "\\x1c", "\\x1d", "\\x1e", "\\x1f",
     "\\x85", "\\xa0", "\\u1680", "\\u2000", "\\u2001", "\\u2002", "\\u2003",
     "\\u2004", "\\u2005", "\\u2006", "\\u2007", "\\u2008", "\\u2009",
     "\\u200a", "\\u2028", "\\u2029", "\\u202f", "\\u205f", "\\u3000"}

RECURSIVE LStrip(_)
LStrip(s) ==
    IF s # <<>> /\ Head(s) \in Whitespace THEN LStrip(Tail(s)) ELSE s

RECURSIVE RStrip(_)
RStrip(s) ==
    IF s # <<>> /\ s[Len(s)] \in Whitespace
    THEN RStrip(SubSeq(s, 1, Len(s) - 1))
    ELSE s

\* str.strip()
Strip(s) == LStrip(RStrip(s))

\* The decoration marker of lines 71-72.
Marker == <<"|", " ", "*">>

\* The places of `line` at which the marker starts.
MarkerAt(line) ==
    {i \in 1..(Len(line) - Len(Marker) + 1) :
        SubSeq(line, i, i + Len(Marker) - 1) = Marker}

\* '| *' in line
HasMarker(line) == MarkerAt(line) # {}

\* Mutant of AfterLastMarker: what follows the first marker of the line.
AfterLastMarker_first(line) ==
    LET i == CHOOSE j \in MarkerAt(line) : \A k \in MarkerAt(line) : j <= k
    IN SubSeq(line, i + Len(Marker), Len(line))

\* line.split('| *')[-1]
AfterLastMarker(line) ==
    LET i == CHOOSE j \in MarkerAt(line) : \A k \in MarkerAt(line) : k <= j
    IN SubSeq(line, i + Len(Marker), Len(line))

\* stdout.split('\n')
RECURSIVE SplitLines(_)
SplitLines(s) ==
    IF \A i \in 1..Len(s) : s[i] # "\n" THEN <<s>>
    ELSE LET i == CHOOSE j \in 1..Len(s) :
                     s[j] = "\n" /\ \A k \in 1..(j - 1) : s[k] # "\n"
         IN <<SubSeq(s, 1, i - 1)>> \o SplitLines(SubSeq(s, i + 1, Len(s)))

NoContent == <<"Clawdbot returned no content.">>
TimeoutReply == <<"Sorry, I took too long to think. Please try again.">>

\* Lines 68-75: the reply of a run that exited with code 0.
CleanOutput(stdout) ==
    LET lines == SplitLines(stdout)
        marked == {i \in 1..Len(lines) : HasMarker(lines[i])}
    IN IF stdout = <<>> THEN NoContent
       ELSE IF marked = {} THEN stdout
       ELSE LET i == CHOOSE j \in marked : \A k \in marked : j <= k
            IN Strip(AfterLastMarker(lines[i]))

\* Lines 62-65: the reply of a run that exited with another code.
FailedReply(code, stderr) ==
    <<"Clawdbot failed (code ", code, "): ">>
        \o (IF stderr = <<>> THEN <<"Unknown error">> ELSE stderr)

\* Lines 80-82: e is str() of the exception.
ErrorReply(e) == <<"Error calling Clawdbot: ", e>>

\* What subprocess.run does: it returns a completed process, or raises
\* TimeoutExpired, or raises another exception, of which exc is the str().
Exited(code, out, err) ==
    [kind |-> "exit", returncode |-> code, stdout |-> out, stderr |-> err,
     exc |-> ""]
TimedOut ==
    [kind |-> "timeout", returncode |-> "", stdout |-> <<>>, stderr |-> <<>>,
     exc |-> ""]
Raised(msg) ==
    [kind |-> "oserror", returncode |-> "", stdout |-> <<>>, stderr |-> <<>>,
     exc |-> msg]
\* No clawdbot on PATH: FileNotFoundError.
SpawnFailed == Raised("[Errno 2] No such file or directory: 'clawdbot'")
\* Output that is not UTF-8 (text=True): UnicodeDecodeError.
DecodeFailed ==
    Raised("'utf-8' codec can't decode byte 0xff in position 0: invalid start byte")

\* No run yet.
NoRun ==
    [kind |-> "none", returncode |-> "", stdout |-> <<>>, stderr |-> <<>>,
     exc |-> ""]

Runs ==
    { Exited("0", <<"o", "k", "\n">>, <<>>),
      Exited("0", <<>>, <<>>),
      Exited("1", <<>>, <<>>),
      TimedOut,
      SpawnFailed,
      DecodeFailed }

\* Lines 51-82: the value call_clawdbot_cli returns for a run.
ReplyOf(p) ==
    CASE p.kind = "timeout" -> TimeoutReply
      [] p.kind = "oserror" -> ErrorReply(p.exc)
      [] p.returncode # "0" -> FailedReply(p.returncode, Strip(p.stderr))
      [] OTHER -> CleanOutput(Strip(p.stdout))

\* Lines 48-49 run before the try: ' '.join(cmd) raises TypeError when the
\* prompt is not a str, and nothing catches it.
JoinRaises(prompt) == ~prompt.isStr

\* ------------------------------------------------------- send_lark_reply
\* client.im.v1.message.create(req): success, an error response, or an
\* exception; lines 101-106 log each and return.
Deliveries == {"sent", "api-error", "exception"}

\* ------------------------------------------------------------- variables
VARIABLES
    clock,              \* time.time()
    ticks,              \* how often the clock has advanced
    seen_message_ids,   \* _seen_message_ids
    nEvents,            \* events received so far
    handler,            \* handler[e]: the request thread of event e
    unit,               \* unit[e]: the background thread of event e
    recorded,           \* history: recorded[m] is the time read by the last
                        \* _is_dup(m) that returned False
    sighted,            \* history: sighted[m] is the time read by the last
                        \* _is_dup(m) that returned
    overlapped          \* history: some call of _is_dup began while another
                        \* was in progress

vars == <<clock, ticks, seen_message_ids, nEvents, handler, unit,
          recorded, sighted, overlapped>>

NoTime == -1
NoReply == <<>>

\* pc: idle, snapshot, sweep, insert, filter, exit, done.
\* state: the state of section 4.4 the event ended in (duplicate,
\* wrong-type, malformed, dispatched), or "raised" when an exception left
\* the handler.
\* message_id, message_type, content: what the handler read of the event
\* at lines 111, 121 and 127, kept for the events it filtered.
HandlerInit ==
    [pc |-> "idle", message_id |-> "none", now |-> NoTime, todo |-> <<>>,
     dup |-> "none", message_type |-> "none", content |-> Unread,
     state |-> "none", response |-> "none"]

\* pc: none, start, running, reply, sent, done, crashed.
\* message_id, message_type, content: the event the thread was started
\* for.  invoked: call_clawdbot_cli has returned.  run: what
\* subprocess.run did (the local p of line 52, or the exception).
UnitInit ==
    [pc |-> "none", message_id |-> "none", message_type |-> "none",
     content |-> Unread, chat_id |-> "none", text |-> PyStr(<<>>),
     invoked |-> FALSE, run |-> NoRun, reply_text |-> NoReply,
     sent_to |-> "none", sent_text |-> NoReply, delivery |-> "none"]

Init ==
    /\ clock = 0
    /\ ticks = 0
    /\ seen_message_ids = <<>>
    /\ nEvents = 0
    /\ handler = [e \in Slots |-> HandlerInit]
    /\ unit = [e \in Slots |-> UnitInit]
    /\ recorded = [m \in MessageIds |-> NoTime]
    /\ sighted = [m \in MessageIds |-> NoTime]
    /\ overlapped = FALSE

\* Time passes.
Tick(d) ==
    /\ ticks < MaxTicks
    /\ clock' = clock + d
    /\ ticks' = ticks + 1
    /\ UNCHANGED <<seen_message_ids, nEvents, handler, unit, recorded, sighted, overlapped>>

\* ---------------------------------------------------------------- handler
\* The handler of e is inside _is_dup.
InIsDup(e) == handler[e].pc \in {"snapshot", "sweep", "insert"}

\* How the handler ended, which is all event() and the dispatcher see of
\* it: it returned None, or an exception left it.
ResponseOf(state) == IF state = "raised" THEN "raised" ELSE "returned"

\* The handler has ended in `state`; its locals are dead.
Ended(state) ==
    [HandlerInit EXCEPT !.pc = "done", !.state = state,
                        !.response = ResponseOf(state)]

\* Line 127 is reached for text messages only.
ContentRead(ty, c) == IF ty = "text" THEN c ELSE Unread

\* Lines 108-114, 32-34: the dispatcher calls the handler with the next
\* event, which enters _is_dup and reads the clock.
Receive(e, m) ==
    /\ e = nEvents + 1
    /\ nEvents' = e
    /\ handler' = [handler EXCEPT ![e] =
          [@ EXCEPT !.pc = "snapshot", !.message_id = m, !.now = clock]]
    /\ overlapped' = (overlapped \/ \E o \in Slots : InIsDup(o))
    /\ UNCHANGED <<clock, ticks, seen_message_ids, unit, recorded, sighted>>

\* Line 36: list(_seen_message_ids.items()), of which lines 37-38 will pop
\* the expired keys.
Snapshot(e) ==
    /\ handler[e].pc = "snapshot"
    /\ handler' = [handler EXCEPT ![e] =
          [@ EXCEPT !.pc = "sweep",
                    !.todo = SweepKeys(seen_message_ids, handler[e].now)]]
    /\ UNCHANGED <<clock, ticks, seen_message_ids, nEvents, unit,
                   recorded, sighted, overlapped>>

\* Line 38: _seen_message_ids.pop(k, None) for the next expired key of the
\* snapshot.
Pop(e) ==
    /\ handler[e].pc = "sweep"
    /\ handler[e].todo # <<>>
    /\ seen_message_ids' = DictPop(seen_message_ids, Head(handler[e].todo))
    /\ handler' = [handler EXCEPT ![e] = [@ EXCEPT !.todo = Tail(@)]]
    /\ UNCHANGED <<clock, ticks, nEvents, unit, recorded, sighted, overlapped>>

\* Line 40: message_id in _seen_message_ids
IsMember(e) == Contains(seen_message_ids, handler[e].message_id)

\* Line 41: return True, with nothing written to the dict.
AfterHit(d, k, now) == d

\* Lines 40-41: the membership test.  On a duplicate _is_dup returns True
\* and the handler returns at line 116.
Check(e) ==
    /\ handler[e].pc = "sweep"
    /\ handler[e].todo = <<>>
    /\ IF IsMember(e)
       THEN /\ handler' = [handler EXCEPT ![e] = Ended("duplicate")]
            /\ seen_message_ids' =
                  AfterHit(seen_message_ids, handler[e].message_id, handler[e].now)
            /\ sighted' = [sighted EXCEPT ![handler[e].message_id] = handler[e].now]
       ELSE /\ handler' = [handler EXCEPT ![e] = [@ EXCEPT !.pc = "insert"]]
            /\ UNCHANGED <<seen_message_ids, sighted>>
    /\ UNCHANGED <<clock, ticks, nEvents, unit, recorded, overlapped>>

\* Lines 43-44: record the id with the time read at line 34, return False.
Insert(e) ==
    /\ handler[e].pc = "insert"
    /\ seen_message_ids' =
          DictSet(seen_message_ids, handler[e].message_id, handler[e].now)
    /\ handler' = [handler EXCEPT ![e] = [@ EXCEPT !.pc = "filter", !.dup = "no"]]
    /\ recorded' = [recorded EXCEPT ![handler[e].message_id] = handler[e].now]
    /\ sighted' = [sighted EXCEPT ![handler[e].message_id] = handler[e].now]
    /\ UNCHANGED <<clock, ticks, nEvents, unit, overlapped>>

\* Mutant of IsTextType: the type filter lets every type through.
IsTextType_any(ty) == TRUE

\* Line 121: only text messages are processed.
IsTextType(ty) == ty = "text"

\* Mutant of ParseStatus: a dict without "text" counts as a parse failure.
ParseStatus_strict(c) ==
    CASE c.json = "invalid" -> "malformed"
      [] c.json = "array" -> "raised"
      [] ~c.hasText -> "malformed"
      [] OTHER -> "ok"

\* Lines 126-130: json.loads(msg.content).get("text", "").
\*   "malformed": json.loads raises JSONDecodeError, which is caught;
\*   "raised":    the parsed value has no .get (AttributeError), which is
\*                not caught and leaves the handler as an exception;
\*   "ok":        the member "text", or "" when the dict has none.
ParseStatus(c) ==
    CASE c.json = "invalid" -> "malformed"
      [] c.json = "array" -> "raised"
      [] OTHER -> "ok"

\* .get("text", "")
ParseText(c) == IF c.hasText THEN c.text ELSE PyStr(<<>>)

\* Lines 118-130: where the handler goes for an event of this type and
\* content.
Classify(ty, c) ==
    IF ~IsTextType(ty) THEN "wrong-type"
    ELSE IF ParseStatus(c) = "malformed" THEN "malformed"
    ELSE IF ParseStatus(c) = "raised" THEN "raised"
    ELSE "dispatched"

\* Lines 118-140 write nothing to the dict: the id recorded at line 43
\* stays, whichever way the handler leaves.
AfterFilter(d, k) == d

\* Lines 118-140: type filter, content parse and Thread(...).start().  The
\* message type and the content of the event are first read here.  A
\* filtered event ends the handler (lines 123, 130, or the exception of
\* line 127); an accepted one starts the thread of process_and_reply.
Dispatch(e, ty, c) ==
    /\ handler[e].pc = "filter"
    /\ IF Classify(ty, c) = "dispatched"
       THEN /\ handler' = [handler EXCEPT ![e] =
                  [HandlerInit EXCEPT !.pc = "exit", !.state = "dispatched"]]
            /\ unit' = [unit EXCEPT ![e] =
                  [@ EXCEPT !.pc = "start",
                            !.message_id = handler[e].message_id,
                            !.message_type = ty, !.content = c,
                            !.chat_id = ChatOf(e), !.text = ParseText(c)]]
       ELSE /\ handler' = [handler EXCEPT ![e] =
                  [Ended(Classify(ty, c)) EXCEPT
                      !.message_id = handler[e].message_id,
                      !.message_type = ty, !.content = ContentRead(ty, c)]]
            /\ UNCHANGED unit
    /\ seen_message_ids' = AfterFilter(seen_message_ids, handler[e].message_id)
    /\ UNCHANGED <<clock, ticks, nEvents, recorded, sighted, overlapped>>

\* Mutant of MayReturn: the handler joins the thread it started.
MayReturn_join(e) ==
    handler[e].pc = "exit" /\ unit[e].pc \in {"done", "crashed"}

\* After line 140 the handler falls off its end: it holds no handle to the
\* thread it started and waits for nothing.
MayReturn(e) == handler[e].pc = "exit"

Return(e) ==
    /\ MayReturn(e)
    /\ handler' = [handler EXCEPT ![e] = Ended(handler[e].state)]
    /\ UNCHANGED <<clock, ticks, seen_message_ids, nEvents, unit,
                   recorded, sighted, overlapped>>

\* ------------------------------------------------------------------- unit
\* The thread has ended; its locals are dead.
UnitEnded(e, pc) ==
    [UnitInit EXCEPT !.pc = pc, !.message_id = unit[e].message_id,
                     !.message_type = unit[e].message_type]

\* Mutant of MayCall: one call of the invoker at a time.
MayCall_serial(e) ==
    unit[e].pc = "start" /\ \A o \in Slots \ {e} : unit[o].pc # "running"

\* Line 140: the started thread runs line 136 at once; it takes no lock
\* and waits for no other thread.
MayCall(e) == unit[e].pc = "start"

\* Lines 136, 48-49: process_and_reply calls call_clawdbot_cli, which
\* builds and logs the command line and hands the prompt to the process.
\* The TypeError of line 49 ends the thread ("crashed").
CallBegin(e) ==
    /\ MayCall(e)
    /\ unit' = [unit EXCEPT ![e] =
          IF JoinRaises(unit[e].text)
          THEN [@ EXCEPT !.pc = "crashed"]
          ELSE [@ EXCEPT !.pc = "running"]]
    /\ UNCHANGED <<clock, ticks, seen_message_ids, nEvents, handler,
                   recorded, sighted, overlapped>>

\* Lines 51-82 write nothing to the dict, whatever the run did.
AfterRun(d, k, p) == d

\* Lines 51-82, 136: subprocess.run ends and call_clawdbot_cli returns the
\* reply text.
CallEnd(e, p) ==
    /\ unit[e].pc = "running"
    /\ unit' = [unit EXCEPT ![e] =
          [@ EXCEPT !.pc = "reply", !.invoked = TRUE,
                    !.content = Unread, !.text = PyStr(<<>>),
                    !.run = p, !.reply_text = ReplyOf(p)]]
    /\ seen_message_ids' = AfterRun(seen_message_ids, unit[e].message_id, p)
    /\ UNCHANGED <<clock, ticks, nEvents, handler, recorded, sighted, overlapped>>

\* Mutant of MaySend: the reply is sent while the call is still running.
MaySend_early(e) == unit[e].pc \in {"running", "reply"}

\* Line 138 is reached when call_clawdbot_cli has returned.
MaySend(e) == unit[e].pc = "reply"

\* Mutant of AfterSend: a failed attempt is made again.
AfterSend_retry(d) == IF d = "sent" THEN "sent" ELSE "reply"

\* Lines 101-106: each outcome of the one call of line 99 is logged, and
\* send_lark_reply returns to line 138, after which process_and_reply ends.
AfterSend(d) == "sent"

\* Mutant of Addressee: chat_id is one variable shared by all events, which
\* holds the chat of the latest event.
Addressee_latest(e) == ChatOf(nEvents)

\* Line 138: chat_id is the local of the handler invocation that defined
\* this process_and_reply (line 125), captured by the closure.
Addressee(e) == unit[e].chat_id

\* Lines 138, 84-106: send_lark_reply(chat_id, reply_text).
Send(e, d) ==
    /\ MaySend(e)
    /\ unit' = [unit EXCEPT ![e] =
          [@ EXCEPT !.pc = AfterSend(d), !.sent_to = Addressee(e),
                    !.sent_text = unit[e].reply_text, !.delivery = d]]
    /\ UNCHANGED <<clock, ticks, seen_message_ids, nEvents, handler,
                   recorded, sighted, overlapped>>

\* process_and_reply returns and the thread ends.
Finish(e) ==
    /\ unit[e].pc = "sent"
    /\ unit' = [unit EXCEPT ![e] = UnitEnded(e, "done")]
    /\ UNCHANGED <<clock, ticks, seen_message_ids, nEvents, handler,
                   recorded, sighted, overlapped>>

\* ---------------------------------------------------------- specification
Next ==
    \/ \E d \in TickSteps : Tick(d)
    \/ \E e \in Events, m \in MessageIds : Receive(e, m)
    \/ \E e \in Events : Snapshot(e)
    \/ \E e \in Events : Pop(e)
    \/ \E e \in Events : Check(e)
    \/ \E e \in Events : Insert(e)
    \/ \E e \in Events, ty \in MessageTypes, c \in Contents : Dispatch(e, ty, c)
    \/ \E e \in Events : Return(e)
    \/ \E e \in Events : CallBegin(e)
    \/ \E e \in Events, p \in Runs : CallEnd(e, p)
    \/ \E e \in Events, d \in Deliveries : Send(e, d)
    \/ \E e \in Events : Finish(e)

Spec == Init /\ [][Next]_vars

\* The whole program from the state in which a first event (m1, a
\* well-formed text message) was handled at time 0, its unit has ended,
\* and TTL_SECONDS + 1 seconds have passed: the record of m1 is expired
\* but still in the window when further events arrive.
RaceInit ==
    /\ clock = TTL_SECONDS + 1
    /\ ticks = 1
    /\ seen_message_ids = <<<<"m1", 0>>>>
    /\ nEvents = 1
    /\ handler = [e \in Slots |->
          IF e = 1 THEN Ended("dispatched") ELSE HandlerInit]
    /\ unit = [e \in Slots |->
          IF e = 1
          THEN [UnitInit EXCEPT !.pc = "done", !.message_id = "m1",
                                !.message_type = "text"]
          ELSE UnitInit]
    /\ recorded = [m \in MessageIds |-> IF m = "m1" THEN 0 ELSE NoTime]
    /\ sighted = [m \in MessageIds |-> IF m = "m1" THEN 0 ELSE NoTime]
    /\ overlapped = FALSE

RaceNext ==
    \/ \E d \in TickSteps : Tick(d)
    \/ \E e \in Racers, m \in MessageIds : Receive(e, m)
    \/ \E e \in Racers : Snapshot(e)
    \/ \E e \in Racers : Pop(e)
    \/ \E e \in Racers : Check(e)
    \/ \E e \in Racers : Insert(e)
    \/ \E e \in Racers, ty \in MessageTypes, c \in Contents : Dispatch(e, ty, c)
    \/ \E e \in Racers : Return(e)
    \/ \E e \in Racers : CallBegin(e)
    \/ \E e \in Racers, p \in Runs : CallEnd(e, p)
    \/ \E e \in Racers, d \in Deliveries : Send(e, d)
    \/ \E e \in Racers : Finish(e)

RaceSpec == RaceInit /\ [][RaceNext]_vars

\* _is_dup alone, called from several threads at once: a call can begin
\* while others are in progress.
ConcDedupNext ==
    \/ \E d \in TickSteps : Tick(d)
    \/ \E e \in Calls, m \in MessageIds : Receive(e, m)
    \/ \E e \in Calls : Snapshot(e)
    \/ \E e \in Calls : Pop(e)
    \/ \E e \in Calls : Check(e)
    \/ \E e \in Calls : Insert(e)

ConcDedupSpec == Init /\ [][ConcDedupNext]_vars

\* call_clawdbot_cli alone: the unit of one accepted event is inside
\* subprocess.run, which exits with code 0 and any captured output.
Pieces ==
    {Marker, <<"a">>, <<"b">>, <<" ">>, <<"\n">>, <<"\t">>, <<"|">>, <<"*">>}

RECURSIVE Flatten(_)
Flatten(ps) == IF ps = <<>> THEN <<>> ELSE Head(ps) \o Flatten(Tail(ps))

Outputs ==
    {Flatten(ps) : ps \in UNION {[1..n -> Pieces] : n \in 0..MaxPieces}}

InvokerInit ==
    /\ clock = 0
    /\ ticks = 0
    /\ seen_message_ids = <<<<"m1", 0>>>>
    /\ nEvents = 1
    /\ handler = [e \in Slots |->
          IF e = 1 THEN Ended("dispatched") ELSE HandlerInit]
    /\ unit = [e \in Slots |->
          IF e = 1
          THEN [UnitInit EXCEPT !.pc = "running", !.message_id = "m1",
                                !.message_type = "text", !.content = TextHi,
                                !.chat_id = ChatOf(1), !.text = ParseText(TextHi)]
          ELSE UnitInit]
    /\ recorded = [m \in MessageIds |-> IF m = "m1" THEN 0 ELSE NoTime]
    /\ sighted = [m \in MessageIds |-> IF m = "m1" THEN 0 ELSE NoTime]
    /\ overlapped = FALSE

InvokerNext ==
    \E e \in Events :
        /\ unit[e].pc = "running"
        /\ \E out \in Outputs : CallEnd(e, Exited("0", out, <<>>))

InvokerSpec == InvokerInit /\ [][InvokerNext]_vars

\* ================================================================= claims
Abs(x) == IF x < 0 THEN -x ELSE x

\* The step of Check by the handler of e: _is_dup decides.
CheckStep(e) ==
    /\ handler[e].pc = "sweep"
    /\ handler[e].todo = <<>>
    /\ handler'[e].pc # "sweep"

\* The step of Insert by the handler of e: _is_dup returns False.
InsertStep(e) == handler[e].pc = "insert" /\ handler'[e].pc = "filter"

\* C1: two handlers with the same message_id never both hold the answer
\* "not duplicate" of _is_dup for times within TTL_SECONDS of each other
\* (as they could not if sweep, membership test and insert were one atomic
\* step).
C1_AtMostOneNotDuplicate ==
    \A a \in Slots, b \in Slots :
        (/\ a # b
         /\ handler[a].dup = "no"
         /\ handler[b].dup = "no"
         /\ handler[a].message_id = handler[b].message_id)
        => Abs(handler[a].now - handler[b].now) > TTL_SECONDS

\* C2: as long as no call of _is_dup has begun during another (sequential
\* calls), a call of _is_dup for an id within TTL_SECONDS of the call that
\* recorded the id returns True.
C2_DuplicateWithinTtl ==
    [][\A e \in Slots :
        (/\ CheckStep(e)
         /\ ~overlapped
         /\ recorded[handler[e].message_id] # NoTime
         /\ handler[e].now - recorded[handler[e].message_id] <= TTL_SECONDS)
        => handler'[e].state = "duplicate"]_vars

\* Sequential calls: a call for m was answered True exactly TTL_SECONDS
\* after m was recorded, with a call for another id in between.
C2_Witness ==
    \E e \in Slots, m \in MessageIds, k \in MessageIds :
        /\ ~overlapped
        /\ k # m
        /\ handler[e].state = "duplicate"
        /\ recorded[m] # NoTime
        /\ sighted[m] = recorded[m] + TTL_SECONDS
        /\ recorded[k] # NoTime
        /\ recorded[m] <= recorded[k]
        /\ recorded[k] <= sighted[m]

\* The call of e comes more than TTL_SECONDS after the last sighting of
\* its id.
AfterTtl(e) ==
    /\ sighted[handler[e].message_id] # NoTime
    /\ handler[e].now - sighted[handler[e].message_id] > TTL_SECONDS

\* C3: a call of _is_dup made more than TTL_SECONDS after the last
\* sighting of its id returns False and records the id with the time it
\* read.
C3_FreshAfterTtl ==
    [][\A e \in Slots :
        /\ (CheckStep(e) /\ AfterTtl(e)) => handler'[e].pc = "insert"
        /\ (InsertStep(e) /\ AfterTtl(e)) =>
              /\ handler'[e].dup = "no"
              /\ Contains(seen_message_ids', handler[e].message_id)
              /\ Get(seen_message_ids', handler[e].message_id) = handler[e].now
      ]_vars

\* A background unit was started for event e.
Launched(e) == unit[e].pc # "none"

\* C4: while no more than TTL_SECONDS have passed since the program
\* started (so that all events arrived within TTL_SECONDS of the first), at
\* most one of the events with one message_id has started a background unit.
C4_AtMostOnceInWindow ==
    clock <= TTL_SECONDS =>
        \A a \in Slots, b \in Slots :
            (a # b /\ Launched(a) /\ Launched(b))
            => unit[a].message_id # unit[b].message_id

\* C5: an event whose message_type is not "text" starts no background
\* unit, so neither call_clawdbot_cli nor send_lark_reply runs for it.
C5_NonTextNeverProcessed ==
    \A e \in Slots :
        /\ Launched(e) => unit[e].message_type = "text"
        /\ handler[e].message_type \notin {"none", "text"} =>
              (handler[e].state = "wrong-type" /\ ~Launched(e))

\* A non-text event was filtered while its id is in the window and another
\* event is being processed.
C5_Witness ==
    \E e \in Slots, o \in Slots :
        /\ handler[e].state = "wrong-type"
        /\ handler[e].message_type = "image"
        /\ ~Launched(e)
        /\ seen_message_ids # <<>>
        /\ unit[o].pc = "running"

\* C6: a text event whose content does not parse as a JSON object ends in
\* Filtered(malformed) with no background unit.
C6_UnparseableIsMalformed ==
    \A e \in Slots :
        (/\ handler[e].pc = "done"
         /\ handler[e].message_type = "text"
         /\ handler[e].content.json \in {"invalid", "array"})
        => (handler[e].state = "malformed" /\ ~Launched(e))

\* C7 as claimed: no background unit is started for a text event whose
\* content is a JSON object without a text member.
C7_MissingTextDropped ==
    \A e \in Slots : ~(Launched(e) /\ unit[e].content = EmptyObject)

\* C7 as amended: a text event whose content is a JSON object without a
\* text member is never ended as a parse failure; it is accepted, and its
\* background unit starts with the empty string as the prompt.
C7_MissingTextAccepted ==
    \A e \in Slots :
        /\ handler[e].state \in {"malformed", "raised"} =>
              handler[e].content # EmptyObject
        /\ (unit[e].pc = "start" /\ unit[e].content = EmptyObject) =>
              (/\ unit[e].text = PyStr(<<>>)
               /\ unit[e].message_type = "text"
               /\ handler[e].state = "dispatched")

C7_Witness ==
    \E e \in Slots :
        /\ unit[e].pc = "start"
        /\ unit[e].content = EmptyObject
        /\ unit[e].text = PyStr(<<>>)
        /\ handler[e].state = "dispatched"

\* C8: no exception of call_clawdbot_cli ends a background unit before
\* send_lark_reply is called: no unit ends without having sent a reply.
C8_EveryUnitReplies ==
    \A e \in Slots :
        Launched(e) => unit[e].pc \in {"start", "running", "reply", "sent", "done"}

\* C9: a unit has called send_lark_reply only after its own call of
\* call_clawdbot_cli returned, and it sends the reply that call returned.
C9_SendAfterInvoke ==
    \A e \in Slots :
        /\ unit[e].pc \in {"start", "running"} => unit[e].sent_to = "none"
        /\ unit[e].sent_to # "none" =>
              (unit[e].invoked /\ unit[e].sent_text = unit[e].reply_text)

\* A unit has sent its reply while another unit is inside the invoker.
C9_Witness ==
    \E e \in Slots, o \in Slots :
        /\ unit[e].pc = "sent"
        /\ unit[e].invoked
        /\ unit[o].pc = "running"

\* C10: once the unit of an accepted event is started, the handler can
\* return, whatever the unit is doing, and how the handler ended does not
\* depend on the unit.
C10_ReturnWithoutWaiting ==
    \A e \in Slots :
        /\ handler[e].pc = "exit" => ENABLED Return(e)
        /\ (handler[e].pc = "done" /\ handler[e].state = "dispatched") =>
              handler[e].response = "returned"

\* A handler has returned while its unit is blocked inside the invoker.
C10_Witness ==
    \E e \in Slots :
        /\ handler[e].pc = "done"
        /\ handler[e].state = "dispatched"
        /\ handler[e].response = "returned"
        /\ unit[e].pc = "running"

\* The unit of e makes a send attempt: line 99 runs.
SendStep(e) == unit[e].pc = "reply" /\ unit'[e] # unit[e]

\* C11: a unit makes one send attempt and no second one: whatever the
\* outcome of the attempt (sent, error response, exception of the client),
\* the unit is then past send_lark_reply, from where it never comes back
\* to the invoker or the sender and does not end by an exception, but ends
\* normally.
C11_SendAtMostOnce ==
    /\ [](\A e \in Slots :
            /\ unit[e].sent_to # "none" => unit[e].pc = "sent"
            /\ unit[e].pc = "sent" => ENABLED Finish(e))
    /\ [][\A e \in Slots :
            /\ SendStep(e) =>
                  (/\ unit'[e].pc = "sent"
                   /\ unit'[e].delivery \in Deliveries)
            /\ (unit[e].pc = "sent" /\ unit'[e] # unit[e]) =>
                  unit'[e].pc = "done"
            /\ unit[e].pc = "done" => unit'[e] = unit[e]
         ]_vars

\* One unit's attempt failed with an exception of the client and another's
\* with an error response; both are past the sender.
C11_Witness ==
    \E e \in Slots, o \in Slots :
        /\ unit[e].pc = "sent"
        /\ unit[e].delivery = "exception"
        /\ unit[o].pc = "sent"
        /\ unit[o].delivery = "api-error"

\* The step by which the call of _is_dup of e returns (True at line 41,
\* False at line 44).
ReturnStep(e) ==
    \/ CheckStep(e) /\ handler'[e].state = "duplicate"
    \/ InsertStep(e)

\* The record of k made by the last call for k that returned False is
\* stale for the call of e when it is older than TTL_SECONDS at the time
\* that call read.
Stale(k, e) ==
    /\ recorded[k] # NoTime
    /\ handler[e].now - recorded[k] > TTL_SECONDS

\* C12 as claimed: when a call of _is_dup returns, the window holds no
\* record for any id whose record was stale for that call, whichever id
\* the call was made for.  Stated for calls none of which began during
\* another, the case the claim describes ("no calls in between, the next
\* call").
C12_NoRecordAfterCall ==
    [][\A e \in Slots, k \in MessageIds :
        (ReturnStep(e) /\ ~overlapped /\ Stale(k, e)) =>
            ~Contains(seen_message_ids', k)
      ]_vars

\* C12 as amended: as long as no call of _is_dup has begun during
\* another, the sweep of a call removes every stale record, whichever id
\* the call is made for, so that the membership test of line 40 finds none
\* of them; when the call returns, an id whose record was stale has no
\* record if the call was made for another id, and has a new record with
\* the time the call read if the call was made for that id.
C12_StaleRecordSwept ==
    [][\A e \in Slots, k \in MessageIds :
        /\ (CheckStep(e) /\ ~overlapped /\ Stale(k, e)) =>
              ~Contains(seen_message_ids, k)
        /\ (/\ ReturnStep(e) /\ ~overlapped /\ Stale(k, e)
            /\ k # handler[e].message_id) =>
              ~Contains(seen_message_ids', k)
        /\ (/\ ReturnStep(e) /\ ~overlapped /\ Stale(k, e)
            /\ k = handler[e].message_id) =>
              /\ handler'[e].dup = "no"
              /\ Contains(seen_message_ids', k)
              /\ Get(seen_message_ids', k) = handler[e].now
      ]_vars

\* Sequential calls: a call for k that returned True has swept the stale
\* record of another id m: m has no record, k keeps its own.
C12_Witness ==
    \E m \in MessageIds, k \in MessageIds, e \in Slots :
        /\ ~overlapped
        /\ m # k
        /\ handler[e].state = "duplicate"
        /\ recorded[m] # NoTime
        /\ recorded[k] # NoTime
        /\ sighted[k] > recorded[k]
        /\ sighted[k] - recorded[m] > TTL_SECONDS
        /\ ~Contains(seen_message_ids, m)
        /\ Contains(seen_message_ids, k)

\* C13: a call of _is_dup that returns True writes
\* nothing to the window, so the id keeps the timestamp of the call that
\* recorded it; and a call for an id made more than TTL_SECONDS after the
\* id was recorded returns False, however recently the id was last
\* answered True.
C13_DuplicateKeepsTimestamp ==
    [][\A e \in Slots :
        /\ (CheckStep(e) /\ handler'[e].state = "duplicate") =>
              /\ seen_message_ids' = seen_message_ids
              /\ Get(seen_message_ids', handler[e].message_id)
                    = recorded[handler[e].message_id]
        /\ (CheckStep(e) /\ Stale(handler[e].message_id, e)) =>
              handler'[e].pc = "insert"
        /\ (InsertStep(e) /\ Stale(handler[e].message_id, e)) =>
              handler'[e].dup = "no"
      ]_vars

\* Every entry of window d is at most TTL_SECONDS older than `now`, and
\* none is younger than `now`.
WithinTtl(d, now) ==
    \A i \in 1..Len(d) : d[i][2] <= now /\ now - d[i][2] <= TTL_SECONDS

\* C14: as long as no call of _is_dup has begun during another
\* (sequential calls), when a call of _is_dup returns, every entry
\* of the window is at most TTL_SECONDS older than the time the call read;
\* and a call returns True only on an entry that is at most TTL_SECONDS
\* older than the time the call read.
C14_WindowWithinTtl ==
    [][\A e \in Slots :
        /\ (ReturnStep(e) /\ ~overlapped) =>
              WithinTtl(seen_message_ids', handler[e].now)
        /\ (CheckStep(e) /\ ~overlapped /\ handler'[e].state = "duplicate") =>
              handler[e].now - Get(seen_message_ids, handler[e].message_id)
                  <= TTL_SECONDS
      ]_vars

\* Sequential calls: a call has returned False and left two entries, its
\* own and one that is exactly TTL_SECONDS older; a third call was answered
\* True.
C14_Witness ==
    \E e \in Slots, b \in Slots :
        /\ ~overlapped
        /\ handler[e].dup = "no"
        /\ handler[b].state = "duplicate"
        /\ Len(seen_message_ids) = 2
        /\ seen_message_ids[2] = <<handler[e].message_id, handler[e].now>>
        /\ handler[e].now - seen_message_ids[1][2] = TTL_SECONDS

\* C15: the invoker of a unit is called with the text extracted from the
\* content of the unit's own event; the reply of a unit is set only by the
\* return of its own call of the invoker; the unit sends that reply to the
\* chat of its own event; and a step of one unit changes nothing of
\* another unit.
C15_OwnChatOwnReply ==
    /\ [](\A e \in Slots :
            /\ unit[e].pc \in {"start", "running"} =>
                  unit[e].text = ParseText(unit[e].content)
            /\ unit[e].pc \in {"start", "running", "reply", "sent"} =>
                  unit[e].chat_id = ChatOf(e)
            /\ unit[e].sent_to # "none" =>
                  (/\ unit[e].sent_to = ChatOf(e)
                   /\ unit[e].sent_text = unit[e].reply_text))
    /\ [][\A e \in Slots :
            /\ unit'[e].reply_text # unit[e].reply_text =>
                  \/ /\ unit[e].pc = "running"
                     /\ unit[e].text.isStr
                     /\ \E p \in Runs : unit'[e].reply_text = ReplyOf(p)
                  \/ unit'[e].pc = "done"
            /\ unit'[e] # unit[e] =>
                  \A o \in Slots \ {e} : unit'[o] = unit[o]
         ]_vars

\* Two units that ran at the same time have sent different replies to
\* different chats, each to the chat of its own event.
C15_Witness ==
    \E e \in Slots, o \in Slots :
        /\ unit[e].pc = "sent" /\ unit[o].pc = "sent"
        /\ unit[e].sent_to = ChatOf(e) /\ unit[o].sent_to = ChatOf(o)
        /\ unit[e].sent_to # unit[o].sent_to
        /\ unit[e].sent_text # unit[o].sent_text
        /\ unit[e].sent_text = unit[e].reply_text
        /\ unit[o].sent_text = unit[o].reply_text

\* C16: no unit waits for another: whatever the other units are doing, a
\* started unit can call the invoker, a unit in the invoker can get any of
\* its outcomes, a unit with a reply can send it, a unit that has sent can
\* end, and a handler past _is_dup can start a unit for a well-formed text
\* event.
C16_UnitsIndependent ==
    \A e \in Slots :
        /\ unit[e].pc = "start" => ENABLED CallBegin(e)
        /\ unit[e].pc = "running" => \A p \in Runs : ENABLED CallEnd(e, p)
        /\ unit[e].pc = "reply" => \A d \in Deliveries : ENABLED Send(e, d)
        /\ unit[e].pc = "sent" => ENABLED Finish(e)
        /\ handler[e].pc = "filter" => ENABLED Dispatch(e, "text", TextHi)

\* Replies out of arrival order: the unit of an earlier event is still
\* inside the invoker while the unit of a later event, with another
\* message_id, has got its reply from the invoker and sent it.
C16_Witness ==
    \E a \in Slots, b \in Slots :
        /\ a < b
        /\ unit[a].message_id # unit[b].message_id
        /\ unit[a].pc = "running"
        /\ unit[a].sent_to = "none"
        /\ unit[b].pc = "sent"
        /\ unit[b].invoked
        /\ unit[b].delivery = "sent"

\* The places of text x that hold no whitespace.
Inked(x) == {i \in 1..Len(x) : x[i] \notin Whitespace}

\* x without its leading and trailing whitespace.
Trimmed(x) ==
    IF Inked(x) = {} THEN <<>>
    ELSE LET a == CHOOSE i \in Inked(x) : \A j \in Inked(x) : i <= j
             b == CHOOSE i \in Inked(x) : \A j \in Inked(x) : j <= i
         IN SubSeq(x, a, b)

\* The places of text x at which a decoration marker starts.
Marks(x) ==
    {i \in 1..Len(x) :
        i + 2 <= Len(x) /\ x[i] = "|" /\ x[i + 1] = " " /\ x[i + 2] = "*"}

\* Places i and j of x are on one line.
SameLine(x, i, j) == \A k \in i..j : x[k] # "\n"

\* The text of x after the last marker of the first line of x that has a
\* marker, up to the end of that line.
Decorated(x) ==
    LET first == CHOOSE i \in Marks(x) : \A j \in Marks(x) : i <= j
        here == {i \in Marks(x) : SameLine(x, first, i)}
        last == CHOOSE i \in here : \A j \in here : j <= i
        rest == SubSeq(x, last + 3, Len(x))
        ends == {i \in 1..Len(rest) : rest[i] = "\n"}
    IN IF ends = {} THEN rest
       ELSE SubSeq(rest, 1, (CHOOSE i \in ends : \A j \in ends : i <= j) - 1)

\* C17: the reply of a run that exited with code 0 is the fixed "no
\* content" message when the captured output is empty or all whitespace;
\* else, when no line of the output has the decoration marker, the output
\* without its leading and trailing whitespace; else the text after the
\* marker (the last one of the first line that has one) up to the end of
\* that line, without its leading and trailing whitespace.
C17_CleanedReply ==
    \A e \in Slots :
        (/\ unit[e].pc = "reply"
         /\ unit[e].run.kind = "exit"
         /\ unit[e].run.returncode = "0")
        => LET out == unit[e].run.stdout
           IN unit[e].reply_text =
                 IF Inked(out) = {} THEN NoContent
                 ELSE IF Marks(out) = {} THEN Trimmed(out)
                 ELSE Trimmed(Decorated(out))

\* The output has two decorated lines, and the reply is the text of the
\* first.
C17_Witness ==
    \E e \in Slots :
        /\ unit[e].pc = "reply"
        /\ unit[e].run.returncode = "0"
        /\ unit[e].run.stdout =
              <<"|", " ", "*", "a", "\n", "|", " ", "*", "b">>
        /\ unit[e].reply_text = <<"a">>

\* The step of Pop by the handler of e: line 38 runs for key k.
PopStep(e, k) ==
    /\ handler[e].pc = "sweep"
    /\ handler[e].todo # <<>>
    /\ Head(handler[e].todo) = k
    /\ handler'[e].todo = Tail(handler[e].todo)

\* C18: the sweep of a call of _is_dup removes no entry that is at most
\* TTL_SECONDS old, also when calls overlap.
C18_SweepKeepsUnexpired ==
    [][\A e \in Slots, k \in MessageIds :
        (/\ PopStep(e, k)
         /\ Contains(seen_message_ids, k)
         /\ clock - Get(seen_message_ids, k) <= TTL_SECONDS)
        => Contains(seen_message_ids', k)
      ]_vars

\* The handler of a ended at the type filter or at the content parse.
Filtered(a) ==
    /\ handler[a].pc = "done"
    /\ handler[a].state \in {"wrong-type", "malformed"}

\* C19: when an event was filtered as wrong-type or malformed, its id was
\* recorded before; and an event that arrived after it with the same
\* message_id, whose call of _is_dup decides after the first was filtered
\* and read a time within TTL_SECONDS of the recording, is answered
\* duplicate and starts no background unit.
C19_FilteredEventConsumesId ==
    [][\A a \in Slots, b \in Slots :
        /\ Filtered(a) => recorded[handler[a].message_id] # NoTime
        /\ (/\ a < b
            /\ Filtered(a)
            /\ CheckStep(b)
            /\ handler[b].message_id = handler[a].message_id
            /\ handler[b].now - recorded[handler[a].message_id]
                  <= TTL_SECONDS)
           => (/\ handler'[b].state = "duplicate"
               /\ handler'[b].pc = "done"
               /\ unit'[b].pc = "none")
      ]_vars

\* A step of the unit of e alone (not the handler's start of it).
UnitStep(e) == unit'[e] # unit[e] /\ handler'[e] = handler[e]

\* The unit of a is past the invoker and the invoker failed or timed out,
\* or the delivery of its reply failed.
UnitFailed(a) ==
    /\ unit[a].pc \in {"reply", "sent"}
    /\ \/ unit[a].run.kind \in {"timeout", "oserror"}
       \/ unit[a].run.kind = "exit" /\ unit[a].run.returncode # "0"
       \/ unit[a].delivery \in {"api-error", "exception"}

\* C20: no step of a background unit changes the window; and an event
\* that arrived after an event whose unit failed, with the same
\* message_id, whose call of _is_dup decides after that failure and read
\* a time within TTL_SECONDS of the recording, is answered duplicate and
\* starts no background unit.
C20_UnitLeavesWindow ==
    [][\A a \in Slots :
        /\ UnitStep(a) => seen_message_ids' = seen_message_ids
        /\ \A b \in Slots :
              (/\ a < b
               /\ UnitFailed(a)
               /\ CheckStep(b)
               /\ handler[b].message_id = unit[a].message_id
               /\ handler[b].now - recorded[unit[a].message_id]
                     <= TTL_SECONDS)
              => (/\ handler'[b].state = "duplicate"
                  /\ handler'[b].pc = "done"
                  /\ unit'[b].pc = "none")
      ]_vars
====
